---- MODULE Spec2Model ----
(***************************************************************************)
(* Model of the HoyaList homeowner web server: the POST /lead pipeline     *)
(* (normalise, validate, geocode, batch write) and the GET /go redirect.   *)
(* The repository holds two variants of the server, src/server.js and      *)
(* src/unnamed/part_000; the variable `variant' says which one runs.       *)
(* Strings are sequences of one-character strings.                         *)
(***************************************************************************)
EXTENDS Integers, Sequences, FiniteSets, TLC

VARIABLES
    variant,        \* which of the two server files is running
    apiKeySet,      \* process.env.GOOGLE_GEOCODING_API_KEY is set
    reqs,           \* per request: the handler's position and locals
    PublicUserInfo, \* Firestore collection: id -> document
    UserLocation,   \* Firestore collection: id -> document
    allocated,      \* ids handed out by collection('PublicUserInfo').doc()
    vBody,          \* validator under test: the form body
    vResult,        \* validator under test: its result
    ua,             \* GET /go: the user-agent header
    location,       \* GET /go: the Location of the 302 response
    gc              \* geocodeZipWithGoogle on its own: one call

vars == <<variant, apiKeySet, reqs, PublicUserInfo, UserLocation, allocated,
          vBody, vResult, ua, location, gc>>

leadVars == <<variant, apiKeySet, reqs, PublicUserInfo, UserLocation, allocated>>

-----------------------------------------------------------------------------
(* Bounds *)

NReq == 2          \* POST /lead requests in one behaviour
MaxEmailLen == 6   \* length of the generated e-mail texts
MaxFrags == 3      \* fragments concatenated into a user-agent

-----------------------------------------------------------------------------
(* Characters and strings *)

Digits == {"0", "1", "2", "3", "4", "5", "6", "7", "8", "9"}

\* \s of a JavaScript regular expression, which is also what trim() strips
WhiteSpace == {" ", "\t", "\n"}

Variants == {"server.js", "part_000"}

RECURSIVE SeqsUpTo(_, _)
SeqsUpTo(S, n) ==
    IF n = 0 THEN {<<>>}
    ELSE LET shorter == SeqsUpTo(S, n - 1)
         IN  shorter \cup {Append(s, c) : s \in {t \in shorter : Len(t) = n - 1}, c \in S}

\* String.prototype.trim: from the first to the last non-blank character
trim(s) ==
    IF \A i \in 1..Len(s) : s[i] \in WhiteSpace THEN <<>>
    ELSE LET first == CHOOSE i \in 1..Len(s) :
                         /\ s[i] \notin WhiteSpace
                         /\ \A j \in 1..(i - 1) : s[j] \in WhiteSpace
             last == CHOOSE i \in 1..Len(s) :
                         /\ s[i] \notin WhiteSpace
                         /\ \A j \in (i + 1)..Len(s) : s[j] \in WhiteSpace
         IN  SubSeq(s, first, last)

\* String.prototype.toLowerCase on ASCII letters
UpperCase ==
    <<"A", "B", "C", "D", "E", "F", "G", "H", "I", "J", "K", "L", "M",
     "N", "O", "P", "Q", "R", "S", "T", "U", "V", "W", "X", "Y", "Z">>
LowerCase ==
    <<"a", "b", "c", "d", "e", "f", "g", "h", "i", "j", "k", "l", "m",
     "n", "o", "p", "q", "r", "s", "t", "u", "v", "w", "x", "y", "z">>

UpperToLower ==
    [c \in {UpperCase[i] : i \in 1..Len(UpperCase)} |->
        LowerCase[CHOOSE i \in 1..Len(UpperCase) : UpperCase[i] = c]]

toLowerCase(s) ==
    [i \in 1..Len(s) |-> IF s[i] \in DOMAIN UpperToLower THEN UpperToLower[s[i]] ELSE s[i]]

\* String.prototype.includes
includes(s, t) ==
    \E i \in 0..(Len(s) - Len(t)) : SubSeq(s, i + 1, i + Len(t)) = t

\* rawBudget.replace(/\D/g, '')
IsDigit(c) == c \in Digits
stripNonDigits(s) == SelectSeq(s, IsDigit)

DigitValue(c) ==
    CASE c = "0" -> 0 [] c = "1" -> 1 [] c = "2" -> 2 [] c = "3" -> 3 [] c = "4" -> 4
      [] c = "5" -> 5 [] c = "6" -> 6 [] c = "7" -> 7 [] c = "8" -> 8 [] c = "9" -> 9

\* The significant digits of a non-empty decimal text
stripLeadingZeros(ds) ==
    IF \A i \in 1..Len(ds) : ds[i] = "0" THEN <<"0">>
    ELSE LET first == CHOOSE i \in 1..Len(ds) :
                         /\ ds[i] # "0"
                         /\ \A j \in 1..(i - 1) : ds[j] = "0"
         IN  SubSeq(ds, first, Len(ds))

RECURSIVE DecimalValue(_)
DecimalValue(ds) ==
    IF ds = <<>> THEN 0
    ELSE 10 * DecimalValue(SubSeq(ds, 1, Len(ds) - 1)) + DigitValue(ds[Len(ds)])

-----------------------------------------------------------------------------
(* JavaScript values that reach a document *)

Null == [type |-> "null"]
Num(n) == [type |-> "number", value |-> n]
Infinity == [type |-> "number", overflow |-> TRUE]
NotANumber == [type |-> "string"]
Undefined == [type |-> "undefined"]

\* Digits of a decimal text whose value TLC's integers hold exactly
ExactDigits == 9
\* A decimal integer of this many significant digits is at least 10^309,
\* above the largest finite double (about 1.8 * 10^308)
OverflowDigits == 310

\* parseInt(budgetDigits, 10) on a non-empty text of decimal digits: a double
parseInt(ds) ==
    LET sig == stripLeadingZeros(ds)
    IN  IF Len(sig) <= ExactDigits THEN Num(DecimalValue(sig))
        ELSE IF Len(sig) >= OverflowDigits THEN Infinity
        ELSE [type |-> "number", nearestDoubleTo |-> sig]

\* isNaN(v): Number(null) is 0, and parseInt never yields NaN on digits
isNaN(v) == FALSE

\* v < 0
isNegative(v) ==
    /\ v.type = "number"
    /\ "value" \in DOMAIN v
    /\ v.value < 0

isInteger(v) == v.type = "number" /\ "value" \in DOMAIN v /\ v.value \in Int

-----------------------------------------------------------------------------
(* POST /lead: normalisation and validation *)

Yes == <<"y", "e", "s">>

\* String(req.body.f || '')
StringOrEmpty(body, f) == IF f \in DOMAIN body THEN body[f] ELSE <<>>

\* req.body.f === 'yes'
IsYes(body, f) == f \in DOMAIN body /\ body[f] = Yes

Normalize(body) ==
    LET rawBudget == trim(StringOrEmpty(body, "budgetText"))
        budgetDigits == IF rawBudget # <<>> THEN stripNonDigits(rawBudget) ELSE <<>>
    IN  [ publicUserName    |-> trim(StringOrEmpty(body, "name")),
          publicUserEmail   |-> toLowerCase(trim(StringOrEmpty(body, "email"))),
          rawPhone          |-> trim(StringOrEmpty(body, "phone")),
          projectText       |-> trim(StringOrEmpty(body, "project")),
          zip               |-> trim(StringOrEmpty(body, "zip")),
          readyToHire       |-> IsYes(body, "readyToHire"),
          urgent            |-> IsYes(body, "urgent"),
          rawBudget         |-> rawBudget,
          budgetDigits      |-> budgetDigits,
          budgetNumber      |-> IF budgetDigits # <<>> THEN parseInt(budgetDigits) ELSE Null,
          publicUserConcent |-> IsYes(body, "concent") ]

\* /^[^\s@]+@[^\s@]+\.[^\s@]{2,}$/i : local part, '@', domain head, '.', tail
isValidEmail(email) ==
    \E a \in 1..Len(email), d \in 1..Len(email) :
        /\ email[a] = "@"
        /\ email[d] = "."
        /\ a >= 2
        /\ d >= a + 2
        /\ Len(email) >= d + 2
        /\ \A i \in (1..Len(email)) \ {a} : email[i] \notin WhiteSpace \cup {"@"}

\* /^\d{5}$/
isZip(zip) == Len(zip) = 5 /\ \A i \in 1..5 : zip[i] \in Digits

\* /^\+[1-9]\d{9,14}$/
isE164(p) ==
    /\ Len(p) >= 11
    /\ Len(p) <= 16
    /\ p[1] = "+"
    /\ p[2] \in Digits \ {"0"}
    /\ \A i \in 3..Len(p) : p[i] \in Digits

\* The handler's early returns, in the order of the code; "OK" when none is taken
ValidationErrorConsentFirst(n) ==
    IF ~n.publicUserConcent THEN "ConsentRequired"
    ELSE IF n.publicUserName = <<>> \/ n.publicUserEmail = <<>>
            \/ n.projectText = <<>> \/ n.zip = <<>> THEN "MissingRequired"
    ELSE IF ~isValidEmail(n.publicUserEmail) THEN "InvalidEmail"
    ELSE IF ~isZip(n.zip) THEN "InvalidZip"
    ELSE IF n.rawPhone # <<>> /\ ~isE164(n.rawPhone) THEN "InvalidPhone"
    ELSE IF n.rawBudget # <<>>
            /\ (n.budgetDigits = <<>> \/ isNaN(n.budgetNumber) \/ isNegative(n.budgetNumber))
         THEN "InvalidBudget"
    ELSE "OK"

ValidationError(n) ==
    IF n.publicUserName = <<>> \/ n.publicUserEmail = <<>>
       \/ n.projectText = <<>> \/ n.zip = <<>> THEN "MissingRequired"
    ELSE IF ~isValidEmail(n.publicUserEmail) THEN "InvalidEmail"
    ELSE IF ~n.publicUserConcent THEN "ConsentRequired"
    ELSE IF ~isZip(n.zip) THEN "InvalidZip"
    ELSE IF n.rawPhone # <<>> /\ ~isE164(n.rawPhone) THEN "InvalidPhone"
    ELSE IF n.rawBudget # <<>>
            /\ (n.budgetDigits = <<>> \/ isNaN(n.budgetNumber) \/ isNegative(n.budgetNumber))
         THEN "InvalidBudget"
    ELSE "OK"

\* publicUserPhone: '' unless a phone was given and passed the check
publicUserPhoneOf(n) == IF n.rawPhone # <<>> THEN n.rawPhone ELSE <<>>


-----------------------------------------------------------------------------
(* Form bodies *)

\* Marks a field the form did not send; MkBody leaves it out of the body
Absent == <<"absent">>

MkBody(f) == [k \in {k \in DOMAIN f : f[k] # Absent} |-> f[k]]

Form(name, email, phone, project, zip, budgetText, concent) ==
    MkBody([name |-> name, email |-> email, phone |-> phone, project |-> project,
            zip |-> zip, budgetText |-> budgetText, concent |-> concent,
            readyToHire |-> Yes, urgent |-> Absent])

Zip06119 == <<"0", "6", "1", "1", "9">>
PhoneGood == <<"+", "1", "8", "8", "8", "5", "5", "5", "1", "2", "3", "4">>
PhoneNoPlus == <<"8", "8", "8", "5", "5", "5", "1", "2", "3", "4">>
PhoneLeadingZero == <<"+", "0", "8", "8", "8", "5", "5", "5", "1", "2", "3", "4">>
EmailGood == <<"a", "@", "b", ".", "c", "o">>
EmailUpperPadded == <<" ", "A", "@", "B", ".", "C", "O", " ">>
EmailNoDot == <<"a", "@", "b">>
EmailDotAtEnd == <<"a", "@", "b", ".", "c", ".">>
Budget2500 == <<"2", ",", "5", "0", "0">>
BudgetAbc == <<"a", "b", "c">>
BudgetHuge == [i \in 1..OverflowDigits |-> "9"]

EmailAlphabet == {"a", "@", "."}

\* Bodies the validator is run on: every e-mail text up to MaxEmailLen over
\* EmailAlphabet with the other fields valid or missing, and a few e-mails
\* with every combination of the other fields' interesting values
ValidateBodies ==
    {Form(name, email, Absent, <<"p">>, Zip06119, Absent, concent) :
        name \in {<<"a">>, <<>>},
        email \in SeqsUpTo(EmailAlphabet, MaxEmailLen),
        concent \in {Yes, Absent}}
    \cup
    {Form(name, email, phone, project, zip, budgetText, concent) :
        name \in {<<"a">>, <<" ">>, Absent},
        email \in {EmailGood, EmailUpperPadded, EmailNoDot, EmailDotAtEnd, <<>>},
        phone \in {Absent, PhoneGood, PhoneNoPlus, PhoneLeadingZero},
        project \in {<<"p">>, Absent},
        zip \in {Zip06119, <<"1", "2", "3", "4">>, <<"1", "2", "3", "4", "5", "6">>,
                 <<"1", "2", "3", "4", "a">>, <<>>},
        budgetText \in {Absent, Budget2500, BudgetAbc, <<" ">>},
        concent \in {Yes, <<"o", "n">>, Absent}}


-----------------------------------------------------------------------------
(* geocodeZipWithGoogle *)

\* How `await fetch(url)' settles: fetch() fails, or a response with resp.ok
FetchOutcomes == {"rejects", "not ok", "ok"}

\* How `await resp.json()' settles: it fails, or yields the parsed body
Answer(jsonFails, data) == [jsonFails |-> jsonFails, data |-> data]

Component(types, long, short) == [types |-> types, long_name |-> long, short_name |-> short]

GeoData(status, results) == [status |-> status, results |-> results]

Located(lat, lng, components) ==
    [geometry |-> [location |-> [lat |-> lat, lng |-> lng]],
     address_components |-> components]

\* r.geometry?.location
locationOf(r) ==
    IF "geometry" \in DOMAIN r /\ "location" \in DOMAIN r.geometry
    THEN r.geometry.location
    ELSE [lat |-> Undefined, lng |-> Undefined]

\* r.address_components || []
componentsOf(r) ==
    IF "address_components" \in DOMAIN r THEN r.address_components ELSE <<>>

\* for (const c of components) if (c.types.includes(t)) picked = c[name]
RECURSIVE lastOfType(_, _, _, _)
lastOfType(components, t, name, picked) ==
    IF components = <<>> THEN picked
    ELSE lastOfType(Tail(components), t, name,
                    IF t \in Head(components).types THEN Head(components)[name] ELSE picked)

userTownOf(components) ==
    LET town == lastOfType(components, "locality", "long_name", "")
    IN  IF town = "" THEN lastOfType(components, "postal_town", "long_name", "") ELSE town

userStateOf(components) ==
    lastOfType(components, "administrative_area_level_1", "short_name", "")

Thrown(message) == [ok |-> FALSE, error |-> message]
Returned(value) == [ok |-> TRUE, value |-> value]

\* The part of geocodeZipWithGoogle after `await resp.json()'
geocodeFromDataDefaultsZero(data) ==
    IF data.status # "OK" \/ "results" \notin DOMAIN data \/ Len(data.results) = 0
    THEN Thrown("Google Geocoding failed")
    ELSE LET r == data.results[1]
             loc == locationOf(r)
         IN  Returned([latitude  |-> IF loc.lat.type = "number" THEN loc.lat ELSE Num(0),
                       longitude |-> IF loc.lng.type = "number" THEN loc.lng ELSE Num(0),
                       userTown  |-> userTownOf(componentsOf(r)),
                       userState |-> userStateOf(componentsOf(r))])

geocodeFromData(data) ==
    IF data.status # "OK" \/ "results" \notin DOMAIN data \/ Len(data.results) = 0
    THEN Thrown("Google Geocoding failed")
    ELSE LET r == data.results[1]
             loc == locationOf(r)
         IN  IF loc.lat.type # "number" \/ loc.lng.type # "number"
             THEN Thrown("Invalid lat/lng from Google")
             ELSE Returned([latitude  |-> loc.lat,
                            longitude |-> loc.lng,
                            userTown  |-> userTownOf(componentsOf(r)),
                            userState |-> userStateOf(componentsOf(r))])

WestHartford ==
    <<Component({"postal_code"}, "06119", "06119"),
      Component({"locality", "political"}, "West Hartford", "West Hartford"),
      Component({"administrative_area_level_1", "political"}, "Connecticut", "CT")>>

GoodData == GeoData("OK", <<Located(Num(41), Num(-72), WestHartford)>>)
ZeroResults == GeoData("ZERO_RESULTS", <<>>)
BadLatData == GeoData("OK", <<Located(NotANumber, Num(-72), WestHartford)>>)

BeverlyHills ==
    <<Component({"locality", "political"}, "Beverly Hills", "Beverly Hills"),
      Component({"administrative_area_level_1", "political"}, "California", "CA")>>

OtherGoodData == GeoData("OK", <<Located(Num(34), Num(-118), BeverlyHills)>>)

\* The bodies the service answers with in the POST /lead pipeline
LeadAnswers ==
    { Answer(TRUE, ZeroResults),
      Answer(FALSE, ZeroResults),
      Answer(FALSE, BadLatData),
      Answer(FALSE, GoodData) }

-----------------------------------------------------------------------------
(* POST /lead: the documents and the responses *)

Ids == 1..NReq
Requests == 1..NReq

ServerTimestamp == "FieldValue.serverTimestamp()"

\* server.js builds the payload and adds budgetText only when a budget was
\* given; part_000 always writes budgetText, null when no budget was given
publicPayload(v, n, publicUserUID) ==
    LET base == [ publicUserUID     |-> publicUserUID,
                  publicUserName    |-> n.publicUserName,
                  publicUserEmail   |-> n.publicUserEmail,
                  publicUserPhone   |-> publicUserPhoneOf(n),
                  projectText       |-> n.projectText,
                  readyToHire       |-> n.readyToHire,
                  urgent            |-> n.urgent,
                  publicUserConcent |-> n.publicUserConcent,
                  postedDate        |-> ServerTimestamp ]
    IN  IF v = "server.js"
        THEN IF n.budgetNumber # Null
             THEN base @@ ("budgetText" :> n.budgetNumber)
             ELSE base
        ELSE base @@ ("budgetText" :> n.budgetNumber)

locationPayload(n, geo, publicUserUID) ==
    [ uid        |-> publicUserUID,
      name       |-> n.publicUserName,
      contractor |-> FALSE,
      latitude   |-> geo.latitude,
      longitude  |-> geo.longitude,
      altitude   |-> Num(0),
      userState  |-> geo.userState,   \* geo.userState || '': already a string
      userTown   |-> geo.userTown,
      zipcode    |-> n.zip,
      postedDate |-> ServerTimestamp ]

Write(collection, id, data) == [collection |-> collection, id |-> id, data |-> data]

\* The batch of the handler: both documents under the one publicUserUID
BuildBatchPublicOnly(v, n, geo, publicUserUID) ==
    << Write("PublicUserInfo", publicUserUID, publicPayload(v, n, publicUserUID)) >>

BuildBatch(v, n, geo, publicUserUID) ==
    << Write("PublicUserInfo", publicUserUID, publicPayload(v, n, publicUserUID)),
       Write("UserLocation", publicUserUID, locationPayload(n, geo, publicUserUID)) >>

\* batch.commit() that goes through: every set() of the batch, on one collection
RECURSIVE ApplyBatch(_, _, _)
ApplyBatch(batch, collection, docs) ==
    IF batch = <<>> THEN docs
    ELSE ApplyBatch(Tail(batch), collection,
                    IF Head(batch).collection = collection
                    THEN (Head(batch).id :> Head(batch).data) @@ docs
                    ELSE docs)

NoResponse == [status |-> 0, fragment |-> "none"]

BadRequest(kind) == [status |-> 400, fragment |-> kind]

RetryFragment == [status |-> 500, fragment |-> "Sorry - we could not save your request."]

\* part_000 also prints the identifier as a reference
Thanks(v, zip, publicUserUID) ==
    IF v = "server.js"
    THEN [status |-> 200, fragment |-> "Thanks! Your project was submitted.", zip |-> zip]
    ELSE [status |-> 200, fragment |-> "Thanks! Your project was submitted.", zip |-> zip,
          reference |-> publicUserUID]

-----------------------------------------------------------------------------
(* POST /lead: the handler, one action per stretch between two awaits *)

NoGeo == [latitude |-> Undefined, longitude |-> Undefined, userTown |-> "", userState |-> ""]

EmptyBody == <<>>

Idle ==
    [ pc            |-> "idle",
      n             |-> Normalize(EmptyBody),
      geo           |-> NoGeo,
      publicUserUID |-> 0,
      batch         |-> <<>>,
      res           |-> NoResponse,
      err           |-> "none",
      fetches       |-> 0,
      commits       |-> 0,
      trace         |-> <<>> ]

\* Bodies posted to /lead: one per validation error, and valid ones with and
\* without the optional fields
LeadBodies ==
    { Form(<<"a">>, EmailGood, Absent, <<"p">>, Zip06119, Absent, Yes),
      Form(<<"b">>, EmailUpperPadded, PhoneGood, <<"p">>, Zip06119, Budget2500, Yes),
      Form(<<"c">>, EmailGood, Absent, <<"p">>, Zip06119, BudgetHuge, Yes),
      Form(<<>>, EmailGood, Absent, <<"p">>, Zip06119, Absent, Absent),
      Form(<<"a">>, EmailNoDot, Absent, <<"p">>, Zip06119, Absent, Yes),
      Form(<<"a">>, EmailGood, Absent, <<"p">>, Zip06119, Absent, Absent),
      Form(<<"a">>, EmailGood, Absent, <<"p">>, <<"1", "2", "3", "4", "a">>, Absent, Yes),
      Form(<<"a">>, EmailGood, PhoneNoPlus, <<"p">>, Zip06119, Absent, Yes),
      Form(<<"a">>, EmailGood, Absent, <<"p">>, Zip06119, BudgetAbc, Yes) }

\* The catch block: log the cause, answer with the generic fragment
CaughtExposesCause(q, cause) ==
    [q EXCEPT !.pc = "done", !.err = cause,
              !.res = [status |-> 500, fragment |-> cause],
              !.trace = Append(@, "respond")]

Caught(q, cause) ==
    [q EXCEPT !.pc = "done", !.err = cause, !.res = RetryFragment,
              !.trace = Append(@, "respond")]

\* Lines 117-199 on request record q: normalise, validate with the early
\* returns, then geocodeZipWithGoogle up to its `await fetch(url)'
LeadStartBudgetFallsThrough(q, body, keySet) ==
    LET n == Normalize(body)
        kind == ValidationError(n)
        started == [q EXCEPT !.n = n, !.trace = <<"validate">>]
    IN  IF kind \notin {"OK", "InvalidBudget"}
        THEN [started EXCEPT !.pc = "done", !.res = BadRequest(kind),
                             !.trace = Append(@, "respond")]
        ELSE IF ~keySet
        THEN Caught([started EXCEPT !.trace = Append(@, "geocode")],
                    "Missing GOOGLE_GEOCODING_API_KEY")
        ELSE [started EXCEPT !.pc = "fetch", !.fetches = @ + 1,
                             !.trace = Append(@, "geocode")]

LeadStart(q, body, keySet) ==
    LET n == Normalize(body)
        kind == ValidationError(n)
        started == [q EXCEPT !.n = n, !.trace = <<"validate">>]
    IN  IF kind # "OK"
        THEN [started EXCEPT !.pc = "done", !.res = BadRequest(kind),
                             !.trace = Append(@, "respond")]
        ELSE IF ~keySet
        THEN Caught([started EXCEPT !.trace = Append(@, "geocode")],
                    "Missing GOOGLE_GEOCODING_API_KEY")
        ELSE [started EXCEPT !.pc = "fetch", !.fetches = @ + 1,
                             !.trace = Append(@, "geocode")]

\* A request arrives; the requests of a behaviour are numbered in arrival order
PostLead(r, body) ==
    /\ reqs[r].pc = "idle"
    /\ \A p \in Requests : p < r => reqs[p].pc # "idle"
    /\ reqs' = [reqs EXCEPT ![r] = LeadStart(@, body, apiKeySet)]
    /\ UNCHANGED <<variant, apiKeySet, PublicUserInfo, UserLocation, allocated,
                   vBody, vResult, ua, location, gc>>

\* Lines 53-56 on request record q: `await fetch(url)' settles; on a success
\* response, resp.json() starts
AfterFetchRetries(q, outcome) ==
    IF outcome = "rejects"
    THEN IF q.fetches < 2 THEN [q EXCEPT !.fetches = @ + 1] ELSE Caught(q, "fetch failed")
    ELSE IF outcome = "not ok" THEN Caught(q, "Google Geocoding HTTP error")
    ELSE [q EXCEPT !.pc = "json"]

AfterFetch(q, outcome) ==
    IF outcome = "rejects" THEN Caught(q, "fetch failed")
    ELSE IF outcome = "not ok" THEN Caught(q, "Google Geocoding HTTP error")
    ELSE [q EXCEPT !.pc = "json"]

FetchSettles(r, outcome) ==
    /\ reqs[r].pc = "fetch"
    /\ reqs' = [reqs EXCEPT ![r] = AfterFetch(@, outcome)]
    /\ UNCHANGED <<variant, apiKeySet, PublicUserInfo, UserLocation, allocated,
                   vBody, vResult, ua, location, gc>>

\* db.collection('PublicUserInfo').doc(): an id no document reference has yet
FreshIdsReused(alloc) == Ids

FreshIds(alloc) == Ids \ alloc

\* `await resp.json()' settles, geocodeZipWithGoogle finishes, and on a
\* GeoResult the handler allocates the id (docThrows: the store client
\* throws), builds the batch and calls batch.commit()
JsonSettles(r, answer, id, docThrows) ==
    /\ reqs[r].pc = "json"
    /\ id \in FreshIds(allocated)
    /\ LET geo == IF answer.jsonFails THEN Thrown("invalid json")
                  ELSE geocodeFromData(answer.data)
           q == reqs[r]
       IN  IF ~geo.ok
           THEN /\ reqs' = [reqs EXCEPT ![r] = Caught(q, geo.error)]
                /\ UNCHANGED allocated
           ELSE IF docThrows
           THEN /\ reqs' = [reqs EXCEPT ![r] =
                                Caught([q EXCEPT !.geo = geo.value], "doc() failed")]
                /\ UNCHANGED allocated
           ELSE /\ reqs' = [reqs EXCEPT ![r] =
                      [q EXCEPT !.pc = "commit",
                                !.geo = geo.value,
                                !.publicUserUID = id,
                                !.batch = BuildBatch(variant, q.n, geo.value, id),
                                !.commits = @ + 1,
                                !.trace = Append(@, "persist")]]
                /\ allocated' = allocated \cup {id}
    /\ UNCHANGED <<variant, apiKeySet, PublicUserInfo, UserLocation,
                   vBody, vResult, ua, location, gc>>

\* The store applies the batch: both documents at once
CommitAppliesSharedBatch(r) ==
    /\ reqs[r].pc = "commit"
    /\ \E p \in Requests :
          /\ reqs[p].pc = "commit"
          /\ PublicUserInfo' = ApplyBatch(reqs[p].batch, "PublicUserInfo", PublicUserInfo)
          /\ UserLocation' = ApplyBatch(reqs[p].batch, "UserLocation", UserLocation)
    /\ reqs' = [reqs EXCEPT ![r].pc = "committed"]
    /\ UNCHANGED <<variant, apiKeySet, allocated, vBody, vResult, ua, location, gc>>

CommitApplies(r) ==
    /\ reqs[r].pc = "commit"
    /\ PublicUserInfo' = ApplyBatch(reqs[r].batch, "PublicUserInfo", PublicUserInfo)
    /\ UserLocation' = ApplyBatch(reqs[r].batch, "UserLocation", UserLocation)
    /\ reqs' = [reqs EXCEPT ![r].pc = "committed"]
    /\ UNCHANGED <<variant, apiKeySet, allocated, vBody, vResult, ua, location, gc>>

\* `await batch.commit()' fails: nothing was written
CommitRejects(r) ==
    /\ reqs[r].pc = "commit"
    /\ reqs' = [reqs EXCEPT ![r] = Caught(@, "commit failed")]
    /\ UNCHANGED <<variant, apiKeySet, PublicUserInfo, UserLocation, allocated,
                   vBody, vResult, ua, location, gc>>

\* `await batch.commit()' returns: the success page
CommitResolves(r) ==
    /\ reqs[r].pc = "committed"
    /\ reqs' = [reqs EXCEPT ![r] =
          [@ EXCEPT !.pc = "done",
                    !.res = Thanks(variant, reqs[r].n.zip, reqs[r].publicUserUID),
                    !.trace = Append(@, "respond")]]
    /\ UNCHANGED <<variant, apiKeySet, PublicUserInfo, UserLocation, allocated,
                   vBody, vResult, ua, location, gc>>

NoDocs == [i \in {} |-> Null]

\* No call of geocodeZipWithGoogle on its own
NoCall == [pc |-> "none"]

NoUa == <<>>

Init ==
    /\ variant \in Variants
    /\ apiKeySet \in BOOLEAN
    /\ reqs = [r \in Requests |-> Idle]
    /\ PublicUserInfo = NoDocs
    /\ UserLocation = NoDocs
    /\ allocated = {}
    /\ vBody = EmptyBody
    /\ vResult = "pending"
    /\ ua = NoUa
    /\ location = "none"
    /\ gc = NoCall

Next ==
    \/ \E r \in Requests, body \in LeadBodies : PostLead(r, body)
    \/ \E r \in Requests, outcome \in FetchOutcomes : FetchSettles(r, outcome)
    \/ \E r \in Requests, answer \in LeadAnswers, id \in Ids, docThrows \in BOOLEAN :
          JsonSettles(r, answer, id, docThrows)
    \/ \E r \in Requests : CommitApplies(r)
    \/ \E r \in Requests : CommitRejects(r)
    \/ \E r \in Requests : CommitResolves(r)

Spec == Init /\ [][Next]_vars


-----------------------------------------------------------------------------
(* The validator on its own *)

InitValidate ==
    /\ vBody \in ValidateBodies
    /\ vResult = "pending"
    /\ variant = "server.js"
    /\ apiKeySet = TRUE
    /\ reqs = [r \in Requests |-> Idle]
    /\ PublicUserInfo = NoDocs
    /\ UserLocation = NoDocs
    /\ allocated = {}
    /\ ua = NoUa
    /\ location = "none"
    /\ gc = NoCall

\* Lines 120-195 of the handler: normalise, then the early returns
Validate ==
    /\ vResult = "pending"
    /\ vResult' = ValidationError(Normalize(vBody))
    /\ UNCHANGED <<vBody, ua, location, gc>>
    /\ UNCHANGED leadVars

NextValidate == Validate

SpecValidate == InitValidate /\ [][NextValidate]_vars

-----------------------------------------------------------------------------
(* GET /go *)

AND_HTTPS == "https://play.google.com/store/apps/details?id=com.hoyalist.hoyalist"
IOS_HTTPS == "https://apps.apple.com/us/app/hoyalist/id6740706168"
AND_INTENT == "intent://details?id=com.hoyalist.hoyalist#Intent;scheme=market;package=com.android.vending;S.browser_fallback_url=https%3A%2F%2Fplay.google.com%2Fstore%2Fapps%2Fdetails%3Fid%3Dcom.hoyalist.hoyalist;end;"
IOS_ITMS == "itms-apps://itunes.apple.com/app/id6740706168"

\* The desktop fallback: the landing page in server.js, the site in part_000
Fallback(v) == IF v = "server.js" THEN "/homeowners" ELSE "https://hoyalistapp.com"

TokAndroid == <<"a", "n", "d", "r", "o", "i", "d">>
TokIphone == <<"i", "p", "h", "o", "n", "e">>
TokIpad == <<"i", "p", "a", "d">>
TokIpod == <<"i", "p", "o", "d">>

InAppTokens ==
    { <<"f", "b", "a", "n">>,
      <<"f", "b", "a", "v">>,
      <<"f", "a", "c", "e", "b", "o", "o", "k">>,
      <<"i", "n", "s", "t", "a", "g", "r", "a", "m">>,
      <<"t", "i", "k", "t", "o", "k">>,
      <<"t", "w", "i", "t", "t", "e", "r">>,
      <<"s", "n", "a", "p", "c", "h", "a", "t">>,
      <<"p", "i", "n", "t", "e", "r", "e", "s", "t">>,
      <<"g", "s", "a">> }

goTargetIosFirst(v, header) ==
    LET ual == toLowerCase(header)
        isAndroid == includes(ual, TokAndroid)
        isIOS == includes(ual, TokIphone) \/ includes(ual, TokIpad) \/ includes(ual, TokIpod)
        isInApp == \E t \in InAppTokens : includes(ual, t)
    IN  IF isIOS THEN (IF ~isInApp THEN IOS_ITMS ELSE IOS_HTTPS)
        ELSE IF isAndroid THEN (IF ~isInApp THEN AND_INTENT ELSE AND_HTTPS)
        ELSE Fallback(v)

\* The Location of the 302 the handler answers with
goTarget(v, header) ==
    LET ual == toLowerCase(header)
        isAndroid == includes(ual, TokAndroid)
        isIOS == includes(ual, TokIphone) \/ includes(ual, TokIpad) \/ includes(ual, TokIpod)
        isInApp == \E t \in InAppTokens : includes(ual, t)
    IN  IF isAndroid THEN (IF ~isInApp THEN AND_INTENT ELSE AND_HTTPS)
        ELSE IF isIOS THEN (IF ~isInApp THEN IOS_ITMS ELSE IOS_HTTPS)
        ELSE Fallback(v)

\* Pieces of user-agent headers, in the letter case browsers send them
UaFragments ==
    { <<"M", "o", "z", "i", "l", "l", "a">>,
      <<"A", "n", "d", "r", "o", "i", "d">>,
      <<"i", "P", "h", "o", "n", "e">>,
      <<"i", "P", "a", "d">>,
      <<"i", "P", "o", "d">>,
      <<"F", "B", "A", "N">>,
      <<"F", "B", "A", "V">>,
      <<"F", "a", "c", "e", "b", "o", "o", "k">>,
      <<"I", "n", "s", "t", "a", "g", "r", "a", "m">>,
      <<"T", "i", "k", "T", "o", "k">>,
      <<"T", "w", "i", "t", "t", "e", "r">>,
      <<"S", "n", "a", "p", "c", "h", "a", "t">>,
      <<"P", "i", "n", "t", "e", "r", "e", "s", "t">>,
      <<"G", "S", "A">>,
      <<"W", "i", "n", "d", "o", "w", "s">> }

\* Headers of up to n fragments, each followed by a blank
RECURSIVE UserAgents(_)
UserAgents(n) ==
    IF n = 0 THEN {<<>>}
    ELSE LET shorter == UserAgents(n - 1)
         IN  shorter \cup {h \o f \o <<" ">> : h \in shorter, f \in UaFragments}

InitGo ==
    /\ ua \in UserAgents(MaxFrags)
    /\ location = "none"
    /\ variant \in Variants
    /\ apiKeySet = TRUE
    /\ reqs = [r \in Requests |-> Idle]
    /\ PublicUserInfo = NoDocs
    /\ UserLocation = NoDocs
    /\ allocated = {}
    /\ vBody = EmptyBody
    /\ vResult = "pending"
    /\ gc = NoCall

\* GET /go: String(req.headers['user-agent'] || '') and the redirect
Go ==
    /\ location = "none"
    /\ location' = goTarget(variant, ua)
    /\ UNCHANGED <<ua, vBody, vResult, gc>>
    /\ UNCHANGED leadVars

NextGo == Go

SpecGo == InitGo /\ [][NextGo]_vars


-----------------------------------------------------------------------------
(* Properties of the document store *)

Committed(r) == reqs[r].pc = "committed" \/ reqs[r].res.status = 200
Failed(r) == reqs[r].err # "none"
Rejected(r) == reqs[r].pc # "idle" /\ ValidationError(reqs[r].n) # "OK"

\* C1: an identifier is the key of a PublicUserInfo document exactly when it
\* is the key of a UserLocation document, in every state, whatever requests,
\* geocode failures and commit failures happened.
C1_PairedKeys == DOMAIN PublicUserInfo = DOMAIN UserLocation

\* A pair is stored while another request has failed at its commit
C1_Witness ==
    /\ DOMAIN PublicUserInfo # {}
    /\ \E r \in Requests : reqs[r].err = "commit failed"

\* C3: a request that fails a validation check is answered with status 400,
\* never reaches the geocoding service or a commit, and the step that handles
\* it leaves both collections as they were.
C3_RejectedNoSideEffects ==
    [][\A r \in Requests :
          (reqs'[r].pc # "idle" /\ ValidationError(reqs'[r].n) # "OK") =>
              /\ reqs'[r].pc = "done"
              /\ reqs'[r].res.status = 400
              /\ reqs'[r].fetches = 0
              /\ reqs'[r].commits = 0
              /\ reqs'[r].publicUserUID = 0
              /\ (reqs'[r] # reqs[r] =>
                    /\ PublicUserInfo' = PublicUserInfo
                    /\ UserLocation' = UserLocation
                    /\ allocated' = allocated)]_vars

\* A request was rejected after another one had stored its pair
C3_Witness ==
    \E r \in Requests :
        /\ Rejected(r)
        /\ reqs[r].res.status = 400
        /\ DOMAIN PublicUserInfo # {}

\* C4: a validated request whose geocode call, identifier allocation or batch
\* commit failed has written no document of either collection, and its
\* response is the one generic status-500 fragment, the same for every cause.
C4_FailureWritesNothing ==
    \A r \in Requests :
        Failed(r) =>
            /\ reqs[r].pc = "done"
            /\ reqs[r].res = RetryFragment
            /\ reqs[r].publicUserUID \notin DOMAIN PublicUserInfo
            /\ reqs[r].publicUserUID \notin DOMAIN UserLocation
            /\ \A id \in DOMAIN PublicUserInfo :
                  \E p \in Requests \ {r} : reqs[p].publicUserUID = id
            /\ \A id \in DOMAIN UserLocation :
                  \E p \in Requests \ {r} : reqs[p].publicUserUID = id

\* Every kind of failure has happened to some request or other: here two
\* different ones in one behaviour
C4_Witness ==
    \E r, p \in Requests :
        /\ reqs[r].err = "commit failed"
        /\ reqs[p].err \in {"Google Geocoding failed", "Invalid lat/lng from Google",
                            "fetch failed", "Google Geocoding HTTP error",
                            "Missing GOOGLE_GEOCODING_API_KEY", "doc() failed"}

\* C5: when n requests have had their commit go through, each collection
\* holds exactly n documents, under the n pairwise distinct identifiers of
\* those requests; identical form data is not deduplicated.
C5_OnePairPerSuccess ==
    LET succeeded == {r \in Requests : Committed(r)}
        uids == {reqs[r].publicUserUID : r \in succeeded}
    IN  /\ Cardinality(DOMAIN PublicUserInfo) = Cardinality(succeeded)
        /\ Cardinality(DOMAIN UserLocation) = Cardinality(succeeded)
        /\ DOMAIN PublicUserInfo = uids
        /\ DOMAIN UserLocation = uids
        /\ \A r, p \in succeeded : r # p => reqs[r].publicUserUID # reqs[p].publicUserUID

\* The same form data submitted twice, both times with success
C5_Witness ==
    \E r, p \in Requests :
        /\ r # p
        /\ reqs[r].n = reqs[p].n
        /\ reqs[r].res.status = 200
        /\ reqs[p].res.status = 200
        /\ Cardinality(DOMAIN PublicUserInfo) = 2


\* A document's budget: none (the field omitted, or null), or the number
NoBudget(d) == "budgetText" \notin DOMAIN d \/ d.budgetText = Null

\* C6: every PublicUserInfo document comes from a fully valid submission:
\* name, e-mail and project text non-empty, the e-mail matching the pattern,
\* consent true, the phone empty or E.164, the budget absent or a non-negative
\* integer, and the paired UserLocation document's ZIP five decimal digits.
C6_StoredLeadsValid ==
    \A id \in DOMAIN PublicUserInfo :
        LET d == PublicUserInfo[id]
        IN  /\ d.publicUserName # <<>>
            /\ d.publicUserEmail # <<>>
            /\ d.projectText # <<>>
            /\ isValidEmail(d.publicUserEmail)
            /\ d.publicUserConcent = TRUE
            /\ (d.publicUserPhone = <<>> \/ isE164(d.publicUserPhone))
            /\ (NoBudget(d) \/ (isInteger(d.budgetText) /\ d.budgetText.value >= 0))
            /\ id \in DOMAIN UserLocation
            /\ isZip(UserLocation[id].zipcode)

HasDigit(text) == \E i \in 1..Len(text) : text[i] \in Digits

\* C8: the document of a successful submission carries budgetText exactly
\* when the raw budget text has a digit, its value then being the integer the
\* digits spell in order; with an empty budget text the field is omitted, not
\* null and not zero; and a budget text without any digit, on a submission
\* that passes the five earlier checks, is rejected with InvalidBudget.
C8_BudgetField ==
    \A r \in Requests :
        LET q == reqs[r]
            raw == q.n.rawBudget
            spelled == stripLeadingZeros(stripNonDigits(raw))
        IN  /\ (Committed(r) /\ q.publicUserUID \in DOMAIN PublicUserInfo) =>
                  LET d == PublicUserInfo[q.publicUserUID]
                  IN  /\ "budgetText" \in DOMAIN d <=> HasDigit(raw)
                      /\ HasDigit(raw) =>
                            /\ isInteger(d.budgetText)
                            /\ d.budgetText.value >= 0
                            /\ (Len(spelled) <= ExactDigits =>
                                  d.budgetText.value = DecimalValue(spelled))
            /\ (q.pc # "idle" /\ raw # <<>> /\ ~HasDigit(raw)) =>
                  /\ q.res.status = 400
                  /\ (q.res.fragment = "InvalidBudget"
                      \/ ValidationError([q.n EXCEPT !.rawBudget = <<>>]) # "OK")

Pipeline == <<"validate", "geocode", "persist">>

IsPrefix(s, t) == Len(s) <= Len(t) /\ SubSeq(t, 1, Len(s)) = s

NotRespond(step) == step # "respond"

C9_Ordered ==
    \A r \in Requests :
        LET q == reqs[r]
        IN  /\ q.fetches <= 1
            /\ q.commits <= 1
            /\ IsPrefix(SelectSeq(q.trace, NotRespond), Pipeline)
            /\ \A i \in 1..Len(q.trace) : q.trace[i] = "respond" => i = Len(q.trace)
            /\ (q.pc = "done" <=> (q.trace # <<>> /\ q.trace[Len(q.trace)] = "respond"))
            /\ (q.pc = "done" <=> q.res # NoResponse)
            /\ q.commits = 1 =>
                  /\ q.fetches = 1
                  /\ q.geo.latitude.type = "number"
                  /\ q.geo.longitude.type = "number"
            /\ q.res.status = 200 =>
                  /\ q.commits = 1
                  /\ q.publicUserUID \in DOMAIN PublicUserInfo
                  /\ q.publicUserUID \in DOMAIN UserLocation

\* C9: per request the steps go validate, geocode, persist, respond in that
\* order; the geocoding service is fetched at most once, the commit is
\* attempted at most once and only with a successful geocode result in hand,
\* the success page is sent only once the pair is stored, and a request that
\* has been answered, with a failure or not, takes no further step.
C9_Sequential ==
    [][/\ C9_Ordered'
       /\ \A r \in Requests : reqs[r].pc = "done" => reqs'[r] = reqs[r]]_vars

\* A request went through all four steps while another failed and stayed so
C9_Witness ==
    \E r, p \in Requests :
        /\ reqs[r].trace = <<"validate", "geocode", "persist", "respond">>
        /\ reqs[r].res.status = 200
        /\ reqs[p].res.status = 500
        /\ reqs[p].fetches = 1

-----------------------------------------------------------------------------
(* Properties of the validator *)

Min(S) == CHOOSE x \in S : \A y \in S : x <= y
Max(S) == CHOOSE x \in S : \A y \in S : x >= y

CheckOrder == <<"MissingRequired", "InvalidEmail", "ConsentRequired",
                "InvalidZip", "InvalidPhone", "InvalidBudget">>

\* The six checks, each on its own
Fails(kind, n) ==
    CASE kind = "MissingRequired" ->
            \E f \in {n.publicUserName, n.publicUserEmail, n.projectText, n.zip} : Len(f) = 0
      [] kind = "InvalidEmail" -> ~isValidEmail(n.publicUserEmail)
      [] kind = "ConsentRequired" -> ~n.publicUserConcent
      [] kind = "InvalidZip" -> ~isZip(n.zip)
      [] kind = "InvalidPhone" -> Len(n.rawPhone) > 0 /\ ~isE164(n.rawPhone)
      [] kind = "InvalidBudget" -> Len(n.rawBudget) > 0 /\ ~HasDigit(n.rawBudget)

\* C2: the validator's result is the error of the first check that fails, in
\* the order MissingRequired, InvalidEmail, ConsentRequired, InvalidZip,
\* InvalidPhone, InvalidBudget, and no error only when all six pass; so an
\* empty name, e-mail, project or ZIP gives MissingRequired whatever else.
C2_FirstFailingCheck ==
    vResult # "pending" =>
        LET n == Normalize(vBody)
            failing == {i \in 1..Len(CheckOrder) : Fails(CheckOrder[i], n)}
        IN  /\ failing # {} => vResult = CheckOrder[Min(failing)]
            /\ failing = {} <=> vResult = "OK"

\* An empty name and no consent: MissingRequired, with consent also failing
C2_Witness ==
    /\ vResult = "MissingRequired"
    /\ Normalize(vBody).publicUserName = <<>>
    /\ ~Normalize(vBody).publicUserConcent
    /\ isValidEmail(Normalize(vBody).publicUserEmail)

\* Malformed as the claim defines it: no '@', or no dot in the part after the
\* '@', or fewer than 2 characters after the last dot
Malformed(email) ==
    LET ats == {i \in 1..Len(email) : email[i] = "@"}
        dots == {i \in 1..Len(email) : email[i] = "."}
    IN  \/ ats = {}
        \/ ats # {} /\ \A i \in dots : i < Min(ats)
        \/ dots # {} /\ Len(email) - Max(dots) < 2

\* C7: a submission with name, e-mail, project and ZIP non-empty and a
\* malformed e-mail gets InvalidEmail.
C7_MalformedEmailRejected ==
    vResult # "pending" =>
        LET n == Normalize(vBody)
        IN  (~Fails("MissingRequired", n) /\ Malformed(n.publicUserEmail)) =>
                vResult = "InvalidEmail"

-----------------------------------------------------------------------------
(* Properties of GET /go *)

Has(token) == includes(toLowerCase(ua), token)
InApp == \E t \in InAppTokens : Has(t)
Android == Has(TokAndroid)
Ios == Has(TokIphone) \/ Has(TokIpad) \/ Has(TokIpod)

\* C10: the target depends on the lower-cased user-agent only: with
\* 'android' in it, the intent link outside an in-app browser and the Play
\* Store page inside one; otherwise with 'iphone', 'ipad' or 'ipod', the
\* itms-apps link outside an in-app browser and the App Store page inside
\* one; otherwise the fallback. Android wins over iOS.
C10_GoTarget ==
    location # "none" =>
        /\ (Android /\ ~InApp) => location = AND_INTENT
        /\ (Android /\ InApp) => location = AND_HTTPS
        /\ (~Android /\ Ios /\ ~InApp) => location = IOS_ITMS
        /\ (~Android /\ Ios /\ InApp) => location = IOS_HTTPS
        /\ (~Android /\ ~Ios) => location = Fallback(variant)

\* A user-agent with an Android and an iOS token, in upper and lower case
C10_Witness ==
    /\ Android
    /\ Ios
    /\ ua # toLowerCase(ua)
    /\ location = AND_INTENT


-----------------------------------------------------------------------------
(* geocodeZipWithGoogle on its own *)

PostalTownOnly ==
    <<Component({"postal_town"}, "Ware", "Ware"),
      Component({"administrative_area_level_1", "political"}, "England", "ENG")>>

TwoLocalities ==
    <<Component({"locality", "political"}, "Hartford", "Hartford"),
      Component({"locality", "political"}, "West Hartford", "West Hartford")>>

GeocodeResults ==
    {Located(lat, lng, cs) :
        lat \in {Num(41), Num(0), NotANumber, Undefined},
        lng \in {Num(-72), NotANumber},
        cs \in {WestHartford, PostalTownOnly, TwoLocalities, <<>>}}
    \cup {[address_components |-> WestHartford],
          [geometry |-> [location_type |-> "APPROXIMATE"]]}

\* results: none, one, or a second one after it
GeocodeResultLists ==
    {<<>>} \cup {<<r>> : r \in GeocodeResults}
           \cup {<<r, Located(Num(7), Num(7), WestHartford)>> : r \in GeocodeResults}

\* What resp.json() can yield, and its failing
GeocodeAnswers ==
    {Answer(FALSE, GeoData(status, results)) :
        status \in {"OK", "ZERO_RESULTS", "REQUEST_DENIED"},
        results \in GeocodeResultLists}
    \cup {Answer(FALSE, [status |-> status]) : status \in {"OK", "REQUEST_DENIED"}}
    \cup {Answer(TRUE, ZeroResults)}

\* The environment of one call: the credential, and how the service would
\* answer if asked
InitGeocode ==
    /\ gc \in {[pc |-> "start", key |-> key, outcome |-> outcome, answer |-> answer,
                sent |-> 0, result |-> Thrown("none")] :
                  key \in BOOLEAN, outcome \in FetchOutcomes, answer \in GeocodeAnswers}
    /\ variant = "server.js"
    /\ apiKeySet = TRUE
    /\ reqs = [r \in Requests |-> Idle]
    /\ PublicUserInfo = NoDocs
    /\ UserLocation = NoDocs
    /\ allocated = {}
    /\ vBody = EmptyBody
    /\ vResult = "pending"
    /\ ua = NoUa
    /\ location = "none"

\* Lines 45-53: the credential check, then the request is sent
GeocodeCall ==
    /\ gc.pc = "start"
    /\ gc' = IF ~gc.key
             THEN [gc EXCEPT !.pc = "thrown",
                             !.result = Thrown("Missing GOOGLE_GEOCODING_API_KEY")]
             ELSE [gc EXCEPT !.pc = "fetch", !.sent = @ + 1]
    /\ UNCHANGED <<vBody, vResult, ua, location>>
    /\ UNCHANGED leadVars

\* Lines 53-56: `await fetch(url)' settles
GeocodeFetchSettles ==
    /\ gc.pc = "fetch"
    /\ gc' = IF gc.outcome = "rejects"
             THEN [gc EXCEPT !.pc = "thrown", !.result = Thrown("fetch failed")]
             ELSE IF gc.outcome = "not ok"
             THEN [gc EXCEPT !.pc = "thrown",
                             !.result = Thrown("Google Geocoding HTTP error")]
             ELSE [gc EXCEPT !.pc = "json"]
    /\ UNCHANGED <<vBody, vResult, ua, location>>
    /\ UNCHANGED leadVars

\* Lines 56-89: `await resp.json()' settles and the function finishes
GeocodeJsonSettles ==
    /\ gc.pc = "json"
    /\ LET result == IF gc.answer.jsonFails THEN Thrown("invalid json")
                     ELSE geocodeFromData(gc.answer.data)
       IN  gc' = [gc EXCEPT !.pc = IF result.ok THEN "returned" ELSE "thrown",
                            !.result = result]
    /\ UNCHANGED <<vBody, vResult, ua, location>>
    /\ UNCHANGED leadVars

NextGeocode ==
    \/ GeocodeCall
    \/ GeocodeFetchSettles
    \/ GeocodeJsonSettles

SpecGeocode == InitGeocode /\ [][NextGeocode]_vars

-----------------------------------------------------------------------------
(* Properties of geocodeZipWithGoogle *)

HasResult(data) == "results" \in DOMAIN data /\ Len(data.results) >= 1

\* typeof x === 'number' of the field at path of record r, undefined on the way
\* counting as not a number
NumberAt(r, path) ==
    /\ "geometry" \in DOMAIN r
    /\ "location" \in DOMAIN r.geometry
    /\ r.geometry.location[path].type = "number"

\* C11: a GeoResult is returned only when the credential is set, the HTTP
\* response is a success, the upstream status is OK with at least one result
\* and the first result's latitude and longitude are numbers; otherwise the
\* call fails, with the error of the first of these conditions that does not
\* hold, and without a credential no request is sent. The returned latitude
\* and longitude are the upstream values of the first result.
C11_GeocodeResult ==
    gc.pc \in {"returned", "thrown"} =>
        LET data == gc.answer.data
            httpOk == gc.outcome = "ok"
            upstreamOk == ~gc.answer.jsonFails /\ data.status = "OK" /\ HasResult(data)
            numeric == /\ upstreamOk
                       /\ NumberAt(data.results[1], "lat")
                       /\ NumberAt(data.results[1], "lng")
        IN  /\ gc.pc = "returned" <=> (gc.key /\ httpOk /\ upstreamOk /\ numeric)
            /\ gc.result.ok <=> gc.pc = "returned"
            /\ ~gc.key =>
                  /\ gc.result.error = "Missing GOOGLE_GEOCODING_API_KEY"
                  /\ gc.sent = 0
            /\ gc.key => gc.sent = 1
            /\ (gc.key /\ ~httpOk) =>
                  gc.result.error \in {"fetch failed", "Google Geocoding HTTP error"}
            /\ (gc.key /\ httpOk /\ ~upstreamOk) =>
                  gc.result.error \in {"invalid json", "Google Geocoding failed"}
            /\ (gc.key /\ httpOk /\ upstreamOk /\ ~numeric) =>
                  gc.result.error = "Invalid lat/lng from Google"
            /\ gc.pc = "returned" =>
                  /\ gc.result.value.latitude = data.results[1].geometry.location.lat
                  /\ gc.result.value.longitude = data.results[1].geometry.location.lng

\* A GeoResult whose latitude is the upstream's own 0, taken from the first
\* of two results
C11_Witness ==
    /\ gc.pc = "returned"
    /\ gc.result.value.latitude = Num(0)
    /\ gc.result.value.longitude = Num(-72)
    /\ Len(gc.answer.data.results) = 2


-----------------------------------------------------------------------------
(* POST /lead requests in flight together, told apart by their data *)

\* Two valid bodies with different names, e-mails and optional fields, and
\* one that fails validation
ConcurrentBodies ==
    { Form(<<"a">>, EmailGood, Absent, <<"p">>, Zip06119, Absent, Yes),
      Form(<<"b">>, EmailUpperPadded, PhoneGood, <<"q">>, Zip06119, Budget2500, Yes),
      Form(<<"d">>, EmailGood, Absent, <<"p">>, Zip06119, Absent, Absent) }

\* Two places the service can answer with, and an answer that is refused
ConcurrentAnswers ==
    { Answer(FALSE, GoodData),
      Answer(FALSE, OtherGoodData),
      Answer(FALSE, BadLatData) }

NextConcurrent ==
    \/ \E r \in Requests, body \in ConcurrentBodies : PostLead(r, body)
    \/ \E r \in Requests, outcome \in FetchOutcomes : FetchSettles(r, outcome)
    \/ \E r \in Requests, answer \in ConcurrentAnswers, id \in Ids, docThrows \in BOOLEAN :
          JsonSettles(r, answer, id, docThrows)
    \/ \E r \in Requests : CommitApplies(r)
    \/ \E r \in Requests : CommitRejects(r)
    \/ \E r \in Requests : CommitResolves(r)

SpecConcurrent == Init /\ [][NextConcurrent]_vars

-----------------------------------------------------------------------------
(* Properties of concurrent requests *)

\* Document d of PublicUserInfo holds the form data of request record q
OwnPublicDoc(q, d) ==
    /\ d.publicUserUID = q.publicUserUID
    /\ d.publicUserName = q.n.publicUserName
    /\ d.publicUserEmail = q.n.publicUserEmail
    /\ d.publicUserPhone = q.n.rawPhone
    /\ d.projectText = q.n.projectText
    /\ d.readyToHire = q.n.readyToHire
    /\ d.urgent = q.n.urgent
    /\ d.publicUserConcent = q.n.publicUserConcent
    /\ "budgetText" \in DOMAIN d => d.budgetText = q.n.budgetNumber

\* Document l of UserLocation holds the name, ZIP and geocode result of q
OwnLocationDoc(q, l) ==
    /\ l.uid = q.publicUserUID
    /\ l.name = q.n.publicUserName
    /\ l.zipcode = q.n.zip
    /\ l.latitude = q.geo.latitude
    /\ l.longitude = q.geo.longitude
    /\ l.userTown = q.geo.userTown
    /\ l.userState = q.geo.userState

\* C12: in every interleaving of the requests, which are suspended at the
\* geocode awaits and the commit await, a request's response follows from its
\* own form data and its own geocode and commit outcomes; every stored
\* document belongs to exactly the request that committed it and holds that
\* request's field values, coordinates and identifier; and the two documents
\* of a pair carry the same identifier and the same name.
C12_Isolation ==
    /\ \A id \in DOMAIN PublicUserInfo \cup DOMAIN UserLocation :
          \E r \in Requests : Committed(r) /\ reqs[r].publicUserUID = id
    /\ \A r \in Requests :
          LET q == reqs[r]
          IN  /\ q.pc \in {"commit", "committed"} =>
                    \A i \in 1..Len(q.batch) :
                        /\ q.batch[i].id = q.publicUserUID
                        /\ q.batch[i].collection = "PublicUserInfo" =>
                              OwnPublicDoc(q, q.batch[i].data)
                        /\ q.batch[i].collection = "UserLocation" =>
                              OwnLocationDoc(q, q.batch[i].data)
              /\ Committed(r) =>
                    /\ q.publicUserUID \in DOMAIN PublicUserInfo
                    /\ q.publicUserUID \in DOMAIN UserLocation
                    /\ OwnPublicDoc(q, PublicUserInfo[q.publicUserUID])
                    /\ OwnLocationDoc(q, UserLocation[q.publicUserUID])
                    /\ UserLocation[q.publicUserUID].uid
                          = PublicUserInfo[q.publicUserUID].publicUserUID
                    /\ UserLocation[q.publicUserUID].name
                          = PublicUserInfo[q.publicUserUID].publicUserName
              /\ q.pc = "done" =>
                    /\ q.res.status = 400 <=> ValidationError(q.n) # "OK"
                    /\ q.res.status = 400 => q.res.fragment = ValidationError(q.n)
                    /\ q.res.status = 500 <=> q.err # "none"
                    /\ q.res.status = 200 <=> (q.commits = 1 /\ q.err = "none")
                    /\ q.res.status = 200 => q.res.zip = q.n.zip
                    /\ (q.res.status = 200 /\ "reference" \in DOMAIN q.res) =>
                          q.res.reference = q.publicUserUID

\* Two requests with different names, both suspended after their commits
\* went through, with different geocode results, the later arrival holding
\* the smaller identifier
C12_Witness ==
    \E r, p \in Requests :
        /\ r < p
        /\ reqs[r].pc = "committed"
        /\ reqs[p].pc = "committed"
        /\ reqs[r].n.publicUserName # reqs[p].n.publicUserName
        /\ reqs[r].geo.latitude # reqs[p].geo.latitude
        /\ reqs[p].publicUserUID < reqs[r].publicUserUID


====
